---- MODULE Spec2Model ----
(***************************************************************************)
(* Triangle mesh vertex reorienter (src/src/main.rs).                      *)
(*                                                                         *)
(* One run of main: parse_input, compute_centroid, the per-triangle        *)
(* orientation loop, write_output.  A panic (unwrap / expect / index out   *)
(* of bounds) ends the run in pc = "panicked".                             *)
(*                                                                         *)
(* Text is modelled as a sequence of lines, a line as the sequence of its  *)
(* whitespace-separated tokens, a token by what the parsers see in it.     *)
(* f64 arithmetic is modelled bit-exactly (53-bit significand, round to    *)
(* nearest, ties to even) on the values the model's inputs produce.        *)
(***************************************************************************)
EXTENDS Integers, Sequences, FiniteSets, TLC

(***************************************************************************)
(* f64.  Every value the computation produces from the model's inputs is   *)
(* an integer multiple of 2^-56 of magnitude below 2^16, so a finite f64   *)
(* is kept as a sign and a magnitude in units of 2^-56; the magnitude is   *)
(* three limbs <<a, b, c>> = a*Limb^2 + b*Limb + c, and 1.0 is             *)
(* <<One, 0, 0>>.                                                          *)
(***************************************************************************)
Limb == 2^20

One == 2^16

Significand == 53

Zero3 == <<0, 0, 0>>

NaN == [nan |-> TRUE, neg |-> FALSE, m |-> Zero3]

F64(neg, m) == [nan |-> FALSE, neg |-> (neg /\ m # Zero3), m |-> m]

MagNorm(a, b, c) ==
    LET c2 == c % Limb
        b1 == b + (c \div Limb)
        b2 == b1 % Limb
    IN  <<a + (b1 \div Limb), b2, c2>>

MagAdd(x, y) == MagNorm(x[1] + y[1], x[2] + y[2], x[3] + y[3])

MagLess(x, y) ==
    \/ x[1] < y[1]
    \/ x[1] = y[1] /\ x[2] < y[2]
    \/ x[1] = y[1] /\ x[2] = y[2] /\ x[3] < y[3]

\* x - y for x >= y
MagSub(x, y) ==
    LET c  == x[3] - y[3]
        bc == IF c < 0 THEN 1 ELSE 0
        b  == x[2] - y[2] - bc
        bb == IF b < 0 THEN 1 ELSE 0
    IN  <<x[1] - y[1] - bb, b + bb * Limb, c + bc * Limb>>

MagMul(k, x) == MagNorm(k * x[1], k * x[2], k * x[3])

RECURSIVE BitLen(_)
BitLen(n) ==
    IF n = 0 THEN 0
    ELSE IF n >= 256 THEN 8 + BitLen(n \div 256)
    ELSE 1 + BitLen(n \div 2)

MagBits(x) ==
    IF x[1] > 0 THEN 40 + BitLen(x[1])
    ELSE IF x[2] > 0 THEN 20 + BitLen(x[2])
    ELSE BitLen(x[3])

\* The magnitude x plus a fraction in (0,1) when sticky, in [0,0] otherwise,
\* rounded to Significand bits: nearest, ties to even.  The bits dropped lie
\* in the lowest limb.  frac is -1, 0 or 1 as the fraction is below, at or
\* above one half (read only when no bit of x itself is dropped).
RoundMag(x, sticky, frac) ==
    LET L    == MagBits(x) - Significand
        unit == 2^L
        low  == x[3] % unit
        half == unit \div 2
        down == <<x[1], x[2], x[3] - low>>
        up   == MagAdd(down, <<0, 0, unit>>)
        odd  == ((x[3] \div unit) % 2) = 1
    IN  IF L < 0 \/ (L = 0 /\ ~sticky) THEN x
        ELSE IF L = 0
             THEN IF frac > 0 \/ (frac = 0 /\ odd) THEN up ELSE down
        ELSE IF low > half \/ (low = half /\ sticky) THEN up
        ELSE IF low < half THEN down
        ELSE IF odd THEN up ELSE down

FromInt(k) ==
    F64(k < 0, <<(IF k < 0 THEN -k ELSE k) * One, 0, 0>>)

Neg(x) == IF x.nan THEN NaN ELSE F64(~x.neg, x.m)

\* x + y, correctly rounded
Add(x, y) ==
    IF x.nan \/ y.nan THEN NaN
    ELSE IF x.neg = y.neg THEN F64(x.neg, RoundMag(MagAdd(x.m, y.m), FALSE, 0))
    ELSE IF MagLess(x.m, y.m) THEN F64(y.neg, RoundMag(MagSub(y.m, x.m), FALSE, 0))
    ELSE F64(x.neg, RoundMag(MagSub(x.m, y.m), FALSE, 0))

Sub(x, y) == Add(x, Neg(y))

\* x * y where x is an integer-valued f64 given by its value k
MulInt(k, y) ==
    IF y.nan THEN NaN
    ELSE F64((k < 0) # y.neg,
             RoundMag(MagMul(IF k < 0 THEN -k ELSE k, y.m), FALSE, 0))

\* (s as f64) / (n as f64) for integers s and n >= 0, correctly rounded;
\* 0/0 is NaN
DivInt(s, n) ==
    IF n = 0 THEN NaN
    ELSE LET t  == (IF s < 0 THEN -s ELSE s) * One
             qa == t \div n
             ra == t % n
             qb == (ra * Limb) \div n
             rb == (ra * Limb) % n
             qc == (rb * Limb) \div n
             r  == (rb * Limb) % n
             fr == IF 2 * r > n THEN 1 ELSE IF 2 * r = n THEN 0 ELSE -1
         IN  F64(s < 0, RoundMag(<<qa, qb, qc>>, r # 0, fr))

IsPositive(x) == ~x.nan /\ ~x.neg /\ x.m # Zero3


(***************************************************************************)
(* Vector3<f64>.  Coordinates read from the input are integer-valued, so   *)
(* points, their differences and cross products are exact and kept as      *)
(* integers; the centroid and everything computed from it is f64.          *)
(***************************************************************************)
VSub(p, q) == <<p[1] - q[1], p[2] - q[2], p[3] - q[3]>>

VAdd(p, q) == <<p[1] + q[1], p[2] + q[2], p[3] + q[3]>>

cross(a, b) ==
    <<a[2] * b[3] - a[3] * b[2],
      a[3] * b[1] - a[1] * b[3],
      a[1] * b[2] - a[2] * b[1]>>

\* norm_vec.dot(&centroid_to_triangle): x*x' + y*y' + z*z', left to right
dot(n, r) == Add(Add(MulInt(n[1], r[1]), MulInt(n[2], r[2])), MulInt(n[3], r[3]))

RECURSIVE SumPoints(_, _)
SumPoints(points, k) ==
    IF k = 0 THEN <<0, 0, 0>> ELSE VAdd(SumPoints(points, k - 1), points[k])

\* for i in 0..npoints { centroid += points[i] }; centroid /= npoints as f64
compute_centroid(points, npoints) ==
    LET s == SumPoints(points, npoints)
    IN  <<DivInt(s[1], npoints), DivInt(s[2], npoints), DivInt(s[3], npoints)>>

\* points[triangle[k]] with triangle's 0-based indices
At(points, triangle, k) == points[triangle[k] + 1]

dot_prod(points, triangle, centroid) ==
    LET p0 == At(points, triangle, 1)
        v1 == VSub(At(points, triangle, 2), p0)
        v2 == VSub(At(points, triangle, 3), p0)
        norm_vec == cross(v1, v2)
        centroid_to_triangle ==
            <<Sub(FromInt(p0[1]), centroid[1]),
              Sub(FromInt(p0[2]), centroid[2]),
              Sub(FromInt(p0[3]), centroid[3])>>
    IN  dot(norm_vec, centroid_to_triangle)

\* dot_prod >= 0.0 in place of dot_prod > 0.0
direction_ge(points, triangle, centroid) ==
    LET d == dot_prod(points, triangle, centroid)
    IN  ~d.nan /\ ~d.neg

\* dot_prod < 0.0 in place of dot_prod > 0.0
direction_lt(points, triangle, centroid) ==
    LET d == dot_prod(points, triangle, centroid)
    IN  ~d.nan /\ d.neg

\* v1 = points[triangle[1]], the subtraction of points[triangle[0]] forgotten
direction_v1(points, triangle, centroid) ==
    LET p0 == At(points, triangle, 1)
        v1 == At(points, triangle, 2)
        v2 == VSub(At(points, triangle, 3), p0)
        centroid_to_triangle ==
            <<Sub(FromInt(p0[1]), centroid[1]),
              Sub(FromInt(p0[2]), centroid[2]),
              Sub(FromInt(p0[3]), centroid[3])>>
    IN  IsPositive(dot(cross(v1, v2), centroid_to_triangle))

compute_triangle_norm_vec_direction(points, triangle, centroid) ==
    IsPositive(dot_prod(points, triangle, centroid))

(***************************************************************************)
(* Text.  A token is what str::parse sees in it: an integer numeral        *)
(* ("4", "-1"), a decimal numeral with p >= 1 fraction digits ("1.0"), or  *)
(* something that is no number ("x").  Numerals carry integer values.      *)
(***************************************************************************)
IntTok(v) == [k |-> "int", v |-> v, p |-> 0]

DecTok(v, p) == [k |-> "dec", v |-> v, p |-> p]

BadTok == [k |-> "bad", v |-> 0, p |-> 0]

\* s.parse::<usize>()
usize_ok(tok) == tok.k = "int" /\ tok.v >= 0

\* s.parse::<f64>()
f64_ok(tok) == tok.k \in {"int", "dec"}

\* format!("{:.*}", precision, x) of an integer-valued x
format_f64(precision, x) == IF precision = 0 THEN IntTok(x) ELSE DecTok(x, precision)

\* n.to_string() of a usize
to_string(n) == IntTok(n)

Failed == [ok |-> FALSE, n_points |-> 0, point_coords |-> <<>>,
           n_triangles |-> 0, triangle_specs |-> <<>>]

\* lines.next().unwrap().parse::<usize>().unwrap() at position at of lines:
\* the whole line is parsed, so it must be one token
NextCountLenient(lines, at) ==
    IF at > Len(lines) THEN [ok |-> TRUE, v |-> 0]
    ELSE IF Len(lines[at]) = 1 /\ usize_ok(lines[at][1])
         THEN [ok |-> TRUE, v |-> lines[at][1].v]
         ELSE [ok |-> FALSE, v |-> 0]

NextCount(lines, at) ==
    IF at <= Len(lines) /\ Len(lines[at]) = 1 /\ usize_ok(lines[at][1])
    THEN [ok |-> TRUE, v |-> lines[at][1].v]
    ELSE [ok |-> FALSE, v |-> 0]

\* the closure of lines 89-95: the first three tokens, each an f64
coord_ok(line) == Len(line) >= 3 /\ \A j \in 1..3 : f64_ok(line[j])

coord_of(line) == <<line[1].v, line[2].v, line[3].v>>

\* the closure of lines 101-106: every token a usize
indices_ok(line) == \A j \in 1..Len(line) : usize_ok(line[j])

indices_of(line) == [j \in 1..Len(line) |-> line[j].v]

Min(a, b) == IF a < b THEN a ELSE b

\* n_triangles taken from the lines read instead of the count line
parse_input_autocount(file) ==
    IF ~file.readable THEN Failed
    ELSE LET lines == file.lines
             np    == NextCount(lines, 1)
             taken == Min(np.v, Len(lines) - 1)
             nt    == NextCount(lines, taken + 2)
             rest  == SubSeq(lines, taken + 3, Len(lines))
         IN  IF ~np.ok THEN Failed
             ELSE IF \E j \in 2..(taken + 1) : ~coord_ok(lines[j]) THEN Failed
             ELSE IF ~nt.ok THEN Failed
             ELSE IF \E j \in 1..Len(rest) : ~indices_ok(rest[j]) THEN Failed
             ELSE [ok |-> TRUE,
                   n_points |-> np.v,
                   point_coords |-> [j \in 1..taken |-> coord_of(lines[j + 1])],
                   n_triangles |-> Len(rest),
                   triangle_specs |-> [j \in 1..Len(rest) |-> indices_of(rest[j])]]

parse_input(file) ==
    IF ~file.readable THEN Failed
    ELSE LET lines == file.lines
             np    == NextCount(lines, 1)
             taken == Min(np.v, Len(lines) - 1)
             nt    == NextCount(lines, taken + 2)
             rest  == SubSeq(lines, taken + 3, Len(lines))
         IN  IF ~np.ok THEN Failed
             ELSE IF \E j \in 2..(taken + 1) : ~coord_ok(lines[j]) THEN Failed
             ELSE IF ~nt.ok THEN Failed
             ELSE IF \E j \in 1..Len(rest) : ~indices_ok(rest[j]) THEN Failed
             ELSE [ok |-> TRUE,
                   n_points |-> np.v,
                   point_coords |-> [j \in 1..taken |-> coord_of(lines[j + 1])],
                   n_triangles |-> nt.v,
                   triangle_specs |-> [j \in 1..Len(rest) |-> indices_of(rest[j])]]

\* triangle.swap(1, 2) on 0-based positions
swap12(triangle) ==
    [j \in 1..Len(triangle) |->
        IF j = 2 THEN triangle[3] ELSE IF j = 3 THEN triangle[2] ELSE triangle[j]]

\* the indexing of lines 154-157 panics unless positions 0..2 exist and index points
triangle_ok(points, triangle) ==
    Len(triangle) >= 3 /\ \A j \in 1..3 : triangle[j] < Len(points)

\* the swap forgotten
corrected_noswap(points, triangle, centroid) == triangle

\* the body of the loop of main
corrected(points, triangle, centroid) ==
    IF compute_triangle_norm_vec_direction(points, triangle, centroid)
    THEN triangle
    ELSE swap12(triangle)

\* the loop of main, over a list whose triangles all pass triangle_ok
correction_pass(points, triangles, centroid) ==
    [j \in 1..Len(triangles) |-> corrected(points, triangles[j], centroid)]

\* write_output reaches fs::write unless triangle_specs[i] is out of bounds
write_ok(n_pts, points, n_tris, triangles) ==
    /\ n_pts <= Len(points)
    /\ n_tris <= Len(triangles)
    /\ \A j \in 1..n_tris : Len(triangles[j]) >= 3

vertex_line(precision, p) ==
    <<format_f64(precision, p[1]), format_f64(precision, p[1]), format_f64(precision, p[1])>>

\* index 1 written twice
triangle_line_112(t) == <<to_string(t[1]), to_string(t[2]), to_string(t[2])>>

triangle_line(t) == <<to_string(t[1]), to_string(t[2]), to_string(t[3])>>

\* out_contents of write_output
write_output(n_pts, points, n_tris, triangles, precision) ==
    <<<<to_string(n_pts)>>>>
    \o [j \in 1..n_pts |-> vertex_line(precision, points[j])]
    \o <<<<to_string(n_tris)>>>>
    \o [j \in 1..n_tris |-> triangle_line(triangles[j])]

(***************************************************************************)
(* Inputs.  tests/input.txt as test_parse_input reads it, malformed        *)
(* variants of it, and meshes of up to MaxPoints vertices drawn from       *)
(* VertexPool with at most one triangle, which is any triple of indices.   *)
(* The vertex lists of these meshes are taken up to reordering: another    *)
(* order of the same vertices only renames the indices.                    *)
(***************************************************************************)
MaxPoints == 5

MaxDeclared == 5

MaxPrecision == 2

DefaultPrecision == 1

TestPoints == <<<<0, 0, 0>>, <<0, 0, 1>>, <<0, 1, 0>>, <<1, 0, 0>>>>

TestTriangles == <<<<0, 1, 2>>, <<0, 3, 2>>, <<0, 3, 1>>, <<1, 2, 3>>>>

VertexPool == TestPoints \o <<<<1, 1, 1>>>>

\* the lists of n vertices of VertexPool, in the pool's order
VertexLists(n) ==
    { [j \in 1..n |-> VertexPool[f[j]]] :
        f \in {g \in [1..n -> 1..Len(VertexPool)] : \A j \in 1..(n - 1) : g[j] <= g[j + 1]} }

CoordLine(p) == <<IntTok(p[1]), IntTok(p[2]), IntTok(p[3])>>

IndexLine(t) == [j \in 1..Len(t) |-> IntTok(t[j])]

MeshLines(P, points, T, triangles) ==
    <<<<IntTok(P)>>>>
    \o [j \in 1..Len(points) |-> CoordLine(points[j])]
    \o <<<<IntTok(T)>>>>
    \o [j \in 1..Len(triangles) |-> IndexLine(triangles[j])]

File(lines) == [readable |-> TRUE, lines |-> lines]

NoFile == [readable |-> FALSE, lines |-> <<>>]

TestFile == File(MeshLines(Len(TestPoints), TestPoints, Len(TestTriangles), TestTriangles))

\* the test file with declared counts and numbers of lines that need not agree,
\* with or without its triangle section
CountFiles ==
    { File(MeshLines(P, SubSeq(TestPoints, 1, k), T, SubSeq(TestTriangles, 1, m))) :
        P \in 0..MaxDeclared, k \in 0..Len(TestPoints),
        T \in 0..MaxDeclared, m \in 0..Len(TestTriangles) }
    \cup
    { File(SubSeq(MeshLines(P, SubSeq(TestPoints, 1, k), 0, <<>>), 1, k + 1)) :
        P \in 0..MaxDeclared, k \in 0..Len(TestPoints) }

\* the first index that is no vertex of the test file
BadIndex == Len(TestPoints)

Variants(line) ==
    {SubSeq(line, 1, n) : n \in 0..(Len(line) - 1)}
    \cup {line \o <<tok>> : tok \in {IntTok(0), IntTok(BadIndex)}}
    \cup {[line EXCEPT ![j] = tok] :
            j \in 1..Len(line),
            tok \in {BadTok, IntTok(-1), IntTok(BadIndex), DecTok(1, 1)}}

\* the test file with one line malformed
DefectFiles ==
    UNION { {File([TestFile.lines EXCEPT ![l] = v]) : v \in Variants(TestFile.lines[l])} :
            l \in 1..Len(TestFile.lines) }

\* the test file, whole or malformed, and no file at all
TestFiles == {TestFile, NoFile, File(<<>>)} \cup CountFiles \cup DefectFiles

(***************************************************************************)
(* One run of main.                                                        *)
(***************************************************************************)
VARIABLES
    input,           \* the resource at in_path
    precision,
    pc,              \* "main", "centroid", "loop", "done", "panicked"
    panic_at,        \* the function that panicked, "" while none has
    n_points,
    point_coords,
    n_triangles,
    triangle_specs,
    centroid,        \* <<>> until computed
    i,               \* the next triangle of the loop of main, from 1
    output,          \* the resource at out_path
    writes           \* calls of fs::write that succeeded

vars == <<input, precision, pc, panic_at, n_points, point_coords, n_triangles,
          triangle_specs, centroid, i, output, writes>>

mesh == <<n_points, point_coords, n_triangles, triangle_specs>>

\* args[1] names a well-formed mesh with at most one triangle, args[3] is absent
GeomRun ==
    \E n \in 1..MaxPoints : \E points \in VertexLists(n) :
        \E triangles \in {<<>>} \cup {<<t>> : t \in [1..3 -> 0..(n - 1)]} :
            /\ input = File(MeshLines(n, points, Len(triangles), triangles))
            /\ precision = DefaultPrecision

\* args[1] names one of TestFiles, args[3] is given
TestRun ==
    \E f \in TestFiles : \E p \in 0..MaxPrecision :
        /\ input = f
        /\ precision = p

Init ==
    /\ (GeomRun \/ TestRun)
    /\ pc = "main"
    /\ panic_at = ""
    /\ n_points = 0
    /\ point_coords = <<>>
    /\ n_triangles = 0
    /\ triangle_specs = <<>>
    /\ centroid = <<>>
    /\ i = 1
    /\ output = [written |-> FALSE, lines |-> <<>>]
    /\ writes = 0

Panic(where) ==
    /\ pc' = "panicked"
    /\ panic_at' = where

\* line 46, parse_input returns
ParseInput ==
    /\ pc = "main"
    /\ LET r == parse_input(input)
       IN  /\ r.ok
           /\ n_points' = r.n_points
           /\ point_coords' = r.point_coords
           /\ n_triangles' = r.n_triangles
           /\ triangle_specs' = r.triangle_specs
    /\ pc' = "centroid"
    /\ UNCHANGED <<input, precision, panic_at, centroid, i, output, writes>>

\* line 46, parse_input panics
ParseInputPanic ==
    /\ pc = "main"
    /\ ~parse_input(input).ok
    /\ Panic("parse_input")
    /\ UNCHANGED <<input, precision, mesh, centroid, i, output, writes>>

\* line 48
ComputeCentroid ==
    /\ pc = "centroid"
    /\ centroid' = compute_centroid(point_coords, n_points)
    /\ pc' = "loop"
    /\ UNCHANGED <<input, precision, panic_at, mesh, i, output, writes>>

\* lines 50-55, one iteration
CorrectTriangle ==
    /\ pc = "loop"
    /\ i <= Len(triangle_specs)
    /\ triangle_ok(point_coords, triangle_specs[i])
    /\ triangle_specs' =
          [triangle_specs EXCEPT ![i] = corrected(point_coords, triangle_specs[i], centroid)]
    /\ i' = i + 1
    /\ UNCHANGED <<input, precision, pc, panic_at, n_points, point_coords, n_triangles,
                   centroid, output, writes>>

\* the bad triangle skipped, the loop going on
CorrectTriangleSkip ==
    /\ pc = "loop"
    /\ i <= Len(triangle_specs)
    /\ ~triangle_ok(point_coords, triangle_specs[i])
    /\ i' = i + 1
    /\ UNCHANGED <<input, precision, pc, panic_at, mesh, centroid, output, writes>>

\* lines 50-55, an index out of bounds in compute_triangle_norm_vec_direction
CorrectTrianglePanic ==
    /\ pc = "loop"
    /\ i <= Len(triangle_specs)
    /\ ~triangle_ok(point_coords, triangle_specs[i])
    /\ Panic("compute_triangle_norm_vec_direction")
    /\ UNCHANGED <<input, precision, mesh, centroid, i, output, writes>>

LoopDone == pc = "loop" /\ i > Len(triangle_specs)

\* line 56, fs::write succeeds
WriteOutput ==
    /\ LoopDone
    /\ write_ok(n_points, point_coords, n_triangles, triangle_specs)
    /\ output' = [written |-> TRUE,
                  lines |-> write_output(n_points, point_coords, n_triangles,
                                         triangle_specs, precision)]
    /\ writes' = writes + 1
    /\ pc' = "done"
    /\ UNCHANGED <<input, precision, panic_at, mesh, centroid, i>>

\* line 56, fs::write fails and expect panics
WriteOutputIOError ==
    /\ LoopDone
    /\ write_ok(n_points, point_coords, n_triangles, triangle_specs)
    /\ Panic("fs::write")
    /\ UNCHANGED <<input, precision, mesh, centroid, i, output, writes>>

\* line 56, an index out of bounds while out_contents is built
WriteOutputPanic ==
    /\ LoopDone
    /\ ~write_ok(n_points, point_coords, n_triangles, triangle_specs)
    /\ Panic("write_output")
    /\ UNCHANGED <<input, precision, mesh, centroid, i, output, writes>>

Next ==
    \/ ParseInput
    \/ ParseInputPanic
    \/ ComputeCentroid
    \/ CorrectTriangle
    \/ CorrectTrianglePanic
    \/ WriteOutput
    \/ WriteOutputIOError
    \/ WriteOutputPanic

Spec == Init /\ [][Next]_vars

TypeOK ==
    /\ pc \in {"main", "centroid", "loop", "done", "panicked"}
    /\ writes \in 0..1
    /\ i \in 1..(Len(triangle_specs) + 1)

(***************************************************************************)
(* Properties.                                                             *)
(***************************************************************************)
\* what parse_input makes of the input resource
Loaded == parse_input(input)

\* the loop of main has run to its end
PassDone ==
    \/ LoopDone
    \/ pc = "done"
    \/ pc = "panicked" /\ panic_at \in {"write_output", "fs::write"}

\* the count a line of the input declares, when it is there and is one
\* non-negative integer
Declared(at) ==
    IF at <= Len(input.lines) /\ Len(input.lines[at]) = 1
       /\ input.lines[at][1].k = "int" /\ input.lines[at][1].v >= 0
    THEN [ok |-> TRUE, v |-> input.lines[at][1].v]
    ELSE [ok |-> FALSE, v |-> 0]

\* the first line of the input
DeclaredPoints == Declared(1)

\* the count line that follows the vertex lines of a resource that loads
DeclaredTriangles == Declared(DeclaredPoints.v + 2).v

\* the lines that follow the triangle-count line of a resource that loads
TriangleLines == Len(input.lines) - (DeclaredPoints.v + 2)

RECURSIVE CoordRun(_, _)
\* the lines from position at on that are shaped as vertex lines, up to the
\* first line of fewer than three tokens
CoordRun(lines, at) ==
    IF at > Len(lines) \/ Len(lines[at]) < 3 THEN 0 ELSE 1 + CoordRun(lines, at + 1)

CoordLinesPresent == CoordRun(input.lines, 2)

Nonzero(x) == ~x.nan /\ x.m # Zero3

\* the component-wise mean of all vertices, in f64
Mean == compute_centroid(point_coords, Len(point_coords))

Outward(t) == compute_triangle_norm_vec_direction(point_coords, t, centroid)

\* the rotations (i1,i2,i0) and (i2,i0,i1) get the answer of (i0,i1,i2)
RotationsAgree(t) ==
    /\ Outward(<<t[2], t[3], t[1]>>) = Outward(<<t[1], t[2], t[3]>>)
    /\ Outward(<<t[3], t[1], t[2]>>) = Outward(<<t[1], t[2], t[3]>>)

\* d of a triangle in exact arithmetic, times the number of points
ExactD(t) ==
    LET p0 == At(point_coords, t, 1)
        n  == cross(VSub(At(point_coords, t, 2), p0), VSub(At(point_coords, t, 3), p0))
        s  == SumPoints(point_coords, Len(point_coords))
        r  == VSub(<<Len(point_coords) * p0[1], Len(point_coords) * p0[2],
                     Len(point_coords) * p0[3]>>, s)
    IN  n[1] * r[1] + n[2] * r[2] + n[3] * r[3]

RECURSIVE OddPart(_)
OddPart(n) == IF n % 2 = 0 THEN OddPart(n \div 2) ELSE n

\* the division of compute_centroid rounds nothing
CentroidExact ==
    /\ Len(point_coords) > 0
    /\ LET s == SumPoints(point_coords, Len(point_coords))
       IN  \A c \in 1..3 : s[c] % OddPart(Len(point_coords)) = 0

\* position 1 and 2 exchanged, whatever follows kept
Flipped(t) == <<t[1], t[3], t[2]>> \o SubSeq(t, 4, Len(t))

Quarter == F64(FALSE, <<One \div 4, 0, 0>>)

C2_VertexLines ==
    pc = "done" =>
        \A j \in 1..n_points :
            output.lines[j + 1] =
                <<format_f64(precision, Loaded.point_coords[j][1]),
                  format_f64(precision, Loaded.point_coords[j][2]),
                  format_f64(precision, Loaded.point_coords[j][3])>>

\* C3: when no loaded triangle has d = 0, a second correction pass over the
\* corrected list changes nothing, and every corrected triangle has d > 0.
C3_Idempotent ==
    PassDone =>
        LET loaded == Loaded.triangle_specs
            C      == centroid
        IN  (\A j \in 1..Len(triangle_specs) : Nonzero(dot_prod(point_coords, loaded[j], C)))
            =>
                /\ correction_pass(point_coords, triangle_specs, centroid) = triangle_specs
                /\ \A j \in 1..Len(triangle_specs) :
                      IsPositive(dot_prod(point_coords, triangle_specs[j], C))

C3_Witness ==
    /\ LoopDone
    /\ input = TestFile
    /\ triangle_specs[4] = <<1, 3, 2>>
    /\ correction_pass(point_coords, triangle_specs, centroid) = triangle_specs

\* C4: for a triangle with d # 0 the corrector gives the same final index
\* order for the loaded winding as for the opposite winding, and that order
\* has d > 0.
C4_WindingInvariant ==
    PassDone =>
        LET loaded == Loaded.triangle_specs
            C      == centroid
        IN  \A j \in 1..Len(triangle_specs) :
                Nonzero(dot_prod(point_coords, loaded[j], C)) =>
                    /\ triangle_specs[j] = corrected(point_coords, swap12(loaded[j]), centroid)
                    /\ IsPositive(dot_prod(point_coords, triangle_specs[j], C))

C4_Witness ==
    /\ PassDone
    /\ n_points = 5
    /\ Len(triangle_specs) = 1
    /\ triangle_specs[1] = swap12(Loaded.triangle_specs[1])
    /\ Loaded.triangle_specs[1] # triangle_specs[1]
    /\ ~CentroidExact
    /\ ExactD(triangle_specs[1]) > 0
    /\ triangle_specs[1] = corrected(point_coords, triangle_specs[1], centroid)

\* C5: a run on a resource that declares 0 points fails before the centroid
\* division and neither writes the output nor terminates normally.
C5_ZeroVertexRejected ==
    (Loaded.ok /\ Loaded.n_points = 0) =>
        /\ centroid = <<>>
        /\ pc # "done"
        /\ ~output.written

\* C6 as stated: whenever the number of lines after the triangle-count line
\* differs from the declared count the run fails and writes nothing.
C6_CountMismatchRejected ==
    (Loaded.ok /\ TriangleLines # DeclaredTriangles) =>
        /\ pc # "done"
        /\ ~output.written

\* C6 as amended: with fewer triangle lines than declared the run fails and
\* writes nothing; with more, the surplus is no error and a run that ends
\* normally has written exactly the declared number of triangles, the first
\* ones of the corrected list.
C6_CountMismatch ==
    Loaded.ok =>
        /\ TriangleLines < DeclaredTriangles => (pc # "done" /\ ~output.written)
        /\ (TriangleLines > DeclaredTriangles /\ pc = "done") =>
              /\ Len(output.lines) = n_points + 2 + DeclaredTriangles
              /\ \A j \in 1..DeclaredTriangles :
                    output.lines[n_points + 2 + j] = IndexLine(SubSeq(triangle_specs[j], 1, 3))

C6_Witness ==
    /\ pc = "done"
    /\ TriangleLines > DeclaredTriangles
    /\ DeclaredTriangles > 0
    /\ Len(output.lines) = n_points + 2 + DeclaredTriangles

\* C7: when the declared point count exceeds the number of coordinate lines
\* present, with or without a triangle section after them, loading fails and
\* yields no mesh: no vertex list, truncated or padded, is ever held and
\* nothing is written.
C7_ShortVertexSection ==
    (input.readable /\ DeclaredPoints.ok /\ DeclaredPoints.v > CoordLinesPresent) =>
        /\ ~Loaded.ok
        /\ pc \in {"main", "panicked"}
        /\ mesh = <<0, <<>>, 0, <<>>>>
        /\ ~output.written

C7_Witness ==
    /\ pc = "panicked"
    /\ panic_at = "parse_input"
    /\ DeclaredPoints.ok
    /\ CoordLinesPresent > 0
    /\ DeclaredPoints.v > CoordLinesPresent
    /\ Len(input.lines) > CoordLinesPresent + 2

\* a loaded triangle with fewer than three indices, or with an index at one
\* of the given positions that is no vertex
BadTriangle(mesh_loaded, positions) ==
    \E j \in 1..Len(mesh_loaded.triangle_specs) :
        LET t == mesh_loaded.triangle_specs[j]
        IN  \/ Len(t) < 3
            \/ \E k \in positions \cap (1..Len(t)) : t[k] >= mesh_loaded.n_points

\* C8 as stated: the output is written at most once, complete, after loading
\* succeeded and every parsed triangle was tested; if loading fails or a
\* triangle has fewer than three indices or any index >= the vertex count,
\* the run fails and never writes.
C8_NoPartialWrites ==
    LET L == Loaded
    IN  /\ writes <= 1
        /\ output.written =>
              /\ pc = "done" /\ writes = 1 /\ L.ok /\ i > Len(triangle_specs)
              /\ Len(output.lines) = n_points + n_triangles + 2
        /\ (~L.ok \/ BadTriangle(L, 1..4)) => (pc # "done" /\ ~output.written)

\* C8 as amended: the same, the index >= the vertex count being one of the
\* triangle's first three indices.
C8_NoPartialWritesFirstThree ==
    LET L == Loaded
    IN  /\ writes <= 1
        /\ output.written =>
              /\ pc = "done" /\ writes = 1 /\ L.ok /\ i > Len(triangle_specs)
              /\ Len(output.lines) = n_points + n_triangles + 2
        /\ (~L.ok \/ BadTriangle(L, 1..3)) => (pc # "done" /\ ~output.written)

C8_Witness ==
    /\ pc = "panicked"
    /\ panic_at = "compute_triangle_norm_vec_direction"
    /\ i > 1
    /\ Len(triangle_specs[i]) = 3
    /\ BadTriangle(Loaded, 1..3)
    /\ ~output.written

\* the input is well formed: it loads, has at least one vertex, as many
\* triangle lines as declared, and three valid indices on each
WellFormed ==
    LET L == Loaded
    IN  /\ L.ok
        /\ L.n_points >= 1
        /\ TriangleLines = DeclaredTriangles
        /\ \A j \in 1..Len(L.triangle_specs) :
              /\ Len(L.triangle_specs[j]) = 3
              /\ \A k \in 1..3 : L.triangle_specs[j][k] < L.n_points

\* C9: loading a well-formed resource, correcting, writing and re-loading
\* what was written gives the same point count, the same triangle count and
\* the index order of every triangle of the corrected list that was written.
C9_RoundTrip ==
    (pc = "done" /\ WellFormed) =>
        LET again == parse_input([readable |-> TRUE, lines |-> output.lines])
        IN  /\ again.ok
            /\ again.n_points = n_points
            /\ Len(again.point_coords) = n_points
            /\ again.n_triangles = n_triangles
            /\ again.triangle_specs = triangle_specs

C9_Witness ==
    /\ pc = "done"
    /\ input = TestFile
    /\ precision = 0
    /\ triangle_specs # Loaded.triangle_specs
    /\ parse_input([readable |-> TRUE, lines |-> output.lines]).triangle_specs = triangle_specs

\* the loaded triangles the orientation test can index
Testable ==
    LET loaded == Loaded.triangle_specs
    IN  { t \in { loaded[j] : j \in 1..Len(loaded) } : triangle_ok(point_coords, t) }

====
